---- MODULE Spec2Model ----
(***************************************************************************)
(* Model of modules/s3/s3payments/base.py: the payment service adapter     *)
(* base class (S3PaymentService: http, _http_opener, verify_reference,     *)
(* adapter factory), the log writer (S3PaymentLog) and the REST method     *)
(* (S3Payments: apply_method, confirm_subscription, cancel_subscription).  *)
(***************************************************************************)
EXTENDS Integers, Sequences, FiniteSets, TLC

(***************************************************************************)
(* Python values.  A string-valued slot holds a string or None; a          *)
(* number-valued slot holds <<n>> or Nil (Python None).                    *)
(***************************************************************************)
None == "None"
False == "False"
Nil == <<>>

\* Python truthiness of a str-or-None-or-False value
Truthy(s) == s # None /\ s # "" /\ s # False

\* Python truthiness of an optional number (record id): None and 0 are falsy
TruthyId(i) == i # Nil /\ i # <<0>>

\* largest value of the clocks
MaxTime == 1

\* largest number of rows of fin_payment_log / lines of the log file
MaxLog == 1

\* largest number of rows of fin_payment_log while requests follow each other
MaxFlowLog == 2

\* number of token requests that run concurrently
MaxRequests == 2

Range(s) == {s[i] : i \in DOMAIN s}

IsPrefix(s, t) == Len(s) <= Len(t) /\ SubSeq(t, 1, Len(s)) = s

VARIABLES
    fin_payment_service,  \* the service configuration table (id -> row)
    adapter,              \* the adapter instance in use, <<>> before construction
    utcnow,               \* current.request.utcnow, fixed during a request
    wallclock,            \* datetime.datetime.utcnow()
    fin_payment_log,      \* the log table as the open transaction sees it
    committed,            \* number of leading log rows already committed
    logfile,              \* current.log: lines of the log file
    fin_subscription,     \* the subscription table (id -> row)
    response,             \* current.response notices
    inflight,             \* the token requests that run concurrently
    last                  \* what the last operation did and returned

vars == <<fin_payment_service, adapter, utcnow, wallclock, fin_payment_log,
          committed, logfile, fin_subscription, response, inflight, last>>

(***************************************************************************)
(* S3PaymentLog                                                            *)
(***************************************************************************)
LogResults == {"INFO", "SUCCESS", "WARNING", "ERROR", "FATAL"}

\* variant: only ERROR is written to the log file
WriteIsCriticalErrorOnly(result) == result = "ERROR"

\* the results that are also written to the log file (line 189)
WriteIsCritical(result) == result \in {"ERROR", "FATAL"}

\* the message for the log file (lines 193-197)
LogMessage(service_id, action, reason) ==
    IF Truthy(reason)
    THEN <<"Payment Service #", service_id, "'", action, "' failed [", reason, "]">>
    ELSE <<"Payment Service #", service_id, "'", action, "' failed">>

\* the row inserted in fin_payment_log (lines 182-187)
LogEntry(date, service_id, action, result, reason) ==
    [date |-> date, service_id |-> service_id, action |-> action,
     result |-> result, reason |-> reason]

\* variant: write() returns only when both are missing
WriteSkipsBoth(action, result) == ~Truthy(action) /\ ~Truthy(result)

\* write() returns without effect (line 178)
WriteSkips(action, result) == ~Truthy(action) \/ ~Truthy(result)

\* variant: the entry replaces the entries of the table
WriteTableReplace(table, date, service_id, action, result, reason) ==
    IF WriteSkips(action, result)
    THEN table
    ELSE <<LogEntry(date, service_id, action, result, reason)>>

\* the table after write()
WriteTable(table, date, service_id, action, result, reason) ==
    IF WriteSkips(action, result)
    THEN table
    ELSE Append(table, LogEntry(date, service_id, action, result, reason))

\* variant: the log file is written only when there is a reason
WriteLogFileReason(file, service_id, action, result, reason) ==
    IF WriteSkips(action, result) \/ ~WriteIsCritical(result) \/ ~Truthy(reason)
    THEN file
    ELSE Append(file, LogMessage(service_id, action, reason))

\* the log file after write()
WriteLogFile(file, service_id, action, result, reason) ==
    IF WriteSkips(action, result) \/ ~WriteIsCritical(result)
    THEN file
    ELSE Append(file, LogMessage(service_id, action, reason))

(***************************************************************************)
(* S3PaymentService: construction and the token API                        *)
(***************************************************************************)
\* S3PaymentService.__init__ (lines 217-240); cls is the class instantiated
NewService(cls, row) ==
    [cls |-> cls,
     service_id |-> row.id,
     base_url |-> row.base_url,
     use_proxy |-> row.use_proxy,
     proxy |-> row.proxy,
     username |-> row.username,
     password |-> row.password,
     token_type |-> row.token_type,
     access_token |-> row.access_token,
     token_expiry_date |-> row.token_expiry_date]

TokenTypes == {"Bearer", "MAC"}

\* a token the provider issues: one that differs from the token held
NewToken(token) == IF token = "T2" THEN "T3" ELSE "T2"

NoToken(kind) == [kind |-> kind, token |-> None, token_type |-> None, expiry |-> Nil]

\* What a call of get_access_token can do.  The base class raises
\* NotImplementedError (line 253); a provider class retrieves and stores a
\* new token and returns it, or returns None, or fails with an exception.
TokenOutcomes(a, now) ==
    IF a.cls = "S3PaymentService"
    THEN {NoToken("NotImplementedError")}
    ELSE {NoToken("return"), NoToken("RuntimeError")}
         \cup {[kind |-> "return", token |-> NewToken(a.access_token),
                 token_type |-> tt, expiry |-> e] :
                 tt \in TokenTypes, e \in {Nil, <<now>>, <<now + 1>>}}

\* the adapter after get_access_token ended as tok: a new token is stored
\* together with its type and expiry date
StoreToken(a, tok) ==
    IF tok.kind = "return" /\ Truthy(tok.token)
    THEN [a EXCEPT !.access_token = tok.token,
                   !.token_type = tok.token_type,
                   !.token_expiry_date = tok.expiry]
    ELSE a

\* the service configuration row after get_access_token ended as tok
PersistToken(table, a, tok) ==
    IF tok.kind = "return" /\ Truthy(tok.token) /\ a.service_id \in DOMAIN table
    THEN [table EXCEPT ![a.service_id].access_token = tok.token,
                       ![a.service_id].token_type = tok.token_type,
                       ![a.service_id].token_expiry_date = tok.expiry]
    ELSE table

\* the API functions that subclasses are to implement (lines 245-364)
ApiFunctions ==
    {"get_access_token", "get_user_info", "register_product", "update_product",
     "retire_product", "register_subscription_plan", "update_subscription_plan",
     "register_subscription", "check_subscription", "activate_subscription",
     "cancel_subscription"}

\* variant: a function that is not implemented returns None
ApiFunctionSilent(name) == [raised |-> None, ret |-> <<None>>]

\* a call of the API function name of the base class: what it raises, and
\* what it returns (Nil: nothing)
ApiFunction(name) == [raised |-> "NotImplementedError", ret |-> Nil]

(***************************************************************************)
(* S3PaymentService._http_opener                                           *)
(***************************************************************************)
\* base64 of "user:password" (lines 524-526)
B64(username, password) ==
    IF username = "client" /\ password = "secret"
    THEN "Y2xpZW50OnNlY3JldA=="
    ELSE "b64"

\* variant: a token without expiry date is not used
NeedsRefreshNoExpiry(token, expiry_date, now) ==
    \/ ~Truthy(token)
    \/ expiry_date = Nil
    \/ expiry_date[1] <= now

\* variant: a token that expires at this very moment is still used
NeedsRefreshLate(token, expiry_date, now) ==
    \/ ~Truthy(token)
    \/ (expiry_date # Nil /\ expiry_date[1] < now)

\* the condition under which a new token is requested (lines 532-533)
NeedsRefresh(token, expiry_date, now) ==
    \/ ~Truthy(token)
    \/ (expiry_date # Nil /\ expiry_date[1] <= now)

\* the exceptions of get_access_token that _http_opener catches (line 536)
OpenerCatches(kind) == kind = "NotImplementedError"

\* the token type of the Authorization header (line 530)
HeaderTokenType(a) == IF Truthy(a.token_type) THEN a.token_type ELSE "Bearer"

\* _http_opener(req, headers, auth) on adapter a (lines 489-561), where a
\* call of get_access_token, if one is made, ends as tok.
\* Returns the adapter afterwards, the opener's headers and handlers, the
\* number of get_access_token calls and the exception raised (or None).
HttpOpener(a, headers, auth, tok, now) ==
    LET handlers1 == IF Truthy(a.proxy) /\ a.use_proxy
                     THEN <<"ProxyHandler">> ELSE <<>>
        creds == Truthy(a.username) /\ Truthy(a.password)
        refresh == auth = "Token"
                   /\ NeedsRefresh(a.access_token, a.token_expiry_date, now)
        raised == IF refresh /\ tok.kind # "return" /\ ~OpenerCatches(tok.kind)
                  THEN tok.kind ELSE None
        token == IF ~refresh THEN a.access_token
                 ELSE IF tok.kind = "return" THEN tok.token ELSE None
        authheader ==
            IF auth = "Basic"
            THEN IF creds
                 THEN << <<"Authorization", "Basic", B64(a.username, a.password)>> >>
                 ELSE <<>>
            ELSE IF auth = "Token"
            THEN IF Truthy(token)
                 THEN << <<"Authorization", HeaderTokenType(a), token>> >>
                 ELSE <<>>
            ELSE <<>>
        handlers2 == IF Truthy(auth) /\ creds
                     THEN Append(handlers1, "HTTPBasicAuthHandler")
                     ELSE handlers1
    IN  [adapter |-> IF refresh THEN StoreToken(a, tok) ELSE a,
         refreshes |-> IF refresh THEN 1 ELSE 0,
         raised |-> raised,
         addheaders |-> IF raised = None THEN headers \o authheader ELSE <<>>,
         handlers |-> IF raised = None THEN handlers2 ELSE <<>>]

(***************************************************************************)
(* S3PaymentService.http                                                   *)
(***************************************************************************)
\* bytes received from or sent to the provider
Bytes(s) == <<"bytes", s>>

\* s3_str of bytes: the text they encode
S3Str(b) == b[2]

JsonDocuments == {"null", "{\"status\": \"ACTIVE\"}"}

\* json.load: the value of a document (JSON null is None), or a ValueError
JsonLoad(b) ==
    IF b[2] \in JsonDocuments
    THEN [error |-> None,
          value |-> IF b[2] = "null" THEN None ELSE "{'status': 'ACTIVE'}"]
    ELSE [error |-> "ValueError", value |-> None]

\* the headers http() sets on the request (lines 432-451)
RequestHeaders(method, data, encode, decode) ==
    (IF method = "GET" \/ ~Truthy(data) THEN <<>>
     ELSE IF encode = "json" THEN << <<"Content-Type", "application/json">> >>
     ELSE IF encode = "text" THEN << <<"Content-Type", "text/plain; charset=UTF-8">> >>
     ELSE << <<"Content-Type", "application/octet-stream">> >>)
    \o (IF decode = "json" THEN << <<"Accept", "application/json">> >>
        ELSE << <<"Accept", "*/*">> >>)

\* what opener.open can do: a response, or an exception
NoNet == [kind |-> "none", code |-> 0, body |-> Bytes(""), reason |-> None]

NetOutcomes ==
    {[kind |-> "ok", code |-> 200, body |-> Bytes(b), reason |-> None] :
        b \in JsonDocuments \cup {"<html>"}}
    \cup {[kind |-> "HTTPError", code |-> 401, body |-> Bytes("denied"), reason |-> None],
          [kind |-> "HTTPError", code |-> 500, body |-> Bytes(""), reason |-> None]}
    \cup {[kind |-> "URLError", code |-> 0, body |-> Bytes(""), reason |-> r] :
            r \in {None, "timed out"}}
    \cup {[kind |-> "SSLError", code |-> 0, body |-> Bytes(""), reason |-> "SSLError"]}

\* isinstance(e, cls): HTTPError is a subclass of URLError, and every
\* exception is an Exception
IsInstance(kind, cls) ==
    \/ kind = cls
    \/ (kind = "HTTPError" /\ cls = "URLError")
    \/ (kind \notin {"ok", "none"} /\ cls = "Exception")

\* variant: the except clause for URLError comes first
HandlerUrlErrorFirst(net) ==
    IF IsInstance(net.kind, "URLError") THEN "URLError"
    ELSE IF IsInstance(net.kind, "HTTPError") THEN "HTTPError"
    ELSE IF IsInstance(net.kind, "Exception") THEN "Exception"
    ELSE "else"

\* the clause of the try statement of http() that handles an outcome
\* (lines 459-471): the first except clause that matches, else the else clause
Handler(net) ==
    IF IsInstance(net.kind, "HTTPError") THEN "HTTPError"
    ELSE IF IsInstance(net.kind, "URLError") THEN "URLError"
    ELSE IF IsInstance(net.kind, "Exception") THEN "Exception"
    ELSE "else"

\* variant: the status is taken only after the response is decoded
RunRequestStatusLate(decode, net) ==
    LET h == Handler(net)
    IN  IF h = "HTTPError" THEN <<None, <<net.code>>, S3Str(net.body)>>
        ELSE IF h = "URLError"
        THEN <<None, Nil, IF Truthy(net.reason) THEN net.reason
                          ELSE "Unknown network error">>
        ELSE IF h = "Exception" THEN <<None, Nil, net.reason>>
        ELSE IF decode = "json"
        THEN LET j == JsonLoad(net.body)
             IN  IF j.error # None THEN <<None, Nil, j.error>>
                 ELSE <<j.value, <<net.code>>, None>>
        ELSE IF decode = "text" THEN <<S3Str(net.body), <<net.code>>, None>>
        ELSE <<"addinfourl", <<net.code>>, None>>

\* (output, status, error) after opener.open ended as net (lines 454-486)
RunRequest(decode, net) ==
    LET h == Handler(net)
    IN  IF h = "HTTPError" THEN <<None, <<net.code>>, S3Str(net.body)>>
        ELSE IF h = "URLError"
        THEN <<None, Nil, IF Truthy(net.reason) THEN net.reason
                          ELSE "Unknown network error">>
        ELSE IF h = "Exception" THEN <<None, Nil, net.reason>>
        ELSE IF decode = "json"
        THEN LET j == JsonLoad(net.body)
             IN  IF j.error # None THEN <<None, <<net.code>>, j.error>>
                 ELSE <<j.value, <<net.code>>, None>>
        ELSE IF decode = "text" THEN <<S3Str(net.body), <<net.code>>, None>>
        ELSE <<"addinfourl", <<net.code>>, None>>

\* the calls of http() considered: (method, data, auth, encode, decode);
\* path and args only shape the URL
Calls ==
    {c \in [method : {"GET", "POST"}, data : {None, "d"},
            auth : {False, "Basic", "Token"},
            encode : {"json", "text", "bytes"},
            decode : {"json", "text", "bytes"}] :
        /\ (c.method = "GET" \/ c.data = None) => c.encode = "json"
        /\ c.method = "GET" => c.data = None
        /\ c.auth # False => c.method = "GET" /\ c.decode = "json"
        /\ c.method = "POST" => c.decode = "json"}

NoCall == [method |-> None, data |-> None, auth |-> None,
           encode |-> None, decode |-> None]

\* the record of an operation: what it was, what it called and what it
\* returned or raised
Idle(op) ==
    [op |-> op, call |-> NoCall, refreshes |-> 0, tok |-> NoToken("none"),
     sent |-> FALSE, headers |-> <<>>, handlers |-> <<>>, net |-> NoNet,
     ret |-> Nil, raised |-> None,
     before |-> Nil, args |-> <<>>, calls |-> <<>>, rejected |-> Nil,
     proceed |-> FALSE, provider |-> Nil]

\* variant: only a missing base URL is refused, an empty one is used
NoBaseUrlNoneOnly(base_url) == base_url = None

\* http() returns at once for want of a base URL (lines 414-416)
NoBaseUrl(base_url) == ~Truthy(base_url)

\* http() on adapter a (lines 390-486), where get_access_token, if called,
\* ends as tok and opener.open, if called, ends as net.
\* Returns the adapter afterwards and the record of the call.
HttpCall(a, call, tok, net, now) ==
    IF NoBaseUrl(a.base_url)
    THEN [adapter |-> a,
          last |-> [Idle("http") EXCEPT !.call = call, !.before = <<a>>,
                                        !.ret = << <<None, Nil, "No base URL set">> >>]]
    ELSE LET o == HttpOpener(a, <<>>, call.auth, tok, now)
             base == [Idle("http") EXCEPT !.call = call, !.before = <<a>>,
                                          !.refreshes = o.refreshes,
                                          !.tok = IF o.refreshes > 0 THEN tok
                                                  ELSE NoToken("none")]
         IN  IF o.raised # None
             THEN [adapter |-> o.adapter, last |-> [base EXCEPT !.raised = o.raised]]
             ELSE [adapter |-> o.adapter,
                   last |-> [base EXCEPT
                       !.sent = TRUE,
                       !.headers = RequestHeaders(call.method, call.data,
                                                  call.encode, call.decode)
                                   \o o.addheaders,
                       !.handlers = o.handlers,
                       !.net = net,
                       !.ret = << RunRequest(call.decode, net) >>]]

(***************************************************************************)
(* S3PaymentService.adapter (factory method)                               *)
(***************************************************************************)
ServiceIds == {1, 2, 3}

\* the static registry of adapter classes (lines 744-745)
AdapterClasses == {"PAYPAL"}

\* the class registered for an API type
AdapterClass(api_type) == IF api_type = "PAYPAL" THEN "PayPalAdapter" ELSE None

\* variant: an adapter is made whatever the API type
AdapterForAnyType(table, service_id) ==
    IF service_id \notin DOMAIN table
    THEN [raised |-> "KeyError", adapter |-> Nil]
    ELSE [raised |-> None,
          adapter |-> <<NewService("PayPalAdapter", table[service_id])>>]

\* adapter(service_id) (lines 707-753): the adapter, or the exception raised
AdapterFor(table, service_id) ==
    IF service_id \notin DOMAIN table
    THEN [raised |-> "KeyError", adapter |-> Nil]
    ELSE IF table[service_id].api_type \notin AdapterClasses
    THEN [raised |-> "ValueError", adapter |-> Nil]
    ELSE [raised |-> None,
          adapter |-> <<NewService(AdapterClass(table[service_id].api_type),
                                   table[service_id])>>]

(***************************************************************************)
(* The state after the tables are set up                                   *)
(***************************************************************************)
\* token states a configuration can be stored with
StoredTokens ==
    {[token_type |-> None, access_token |-> None, token_expiry_date |-> Nil]}
    \cup [token_type : {None, "MAC"}, access_token : {"T1"},
          token_expiry_date : {Nil, <<0>>, <<1>>}]

\* configurations of the PayPal service (#1)
PayPalRow(base_url, t) ==
    [id |-> 1, api_type |-> "PAYPAL", base_url |-> base_url,
     use_proxy |-> FALSE, proxy |-> None,
     username |-> "client", password |-> "secret",
     token_type |-> t.token_type, access_token |-> t.access_token,
     token_expiry_date |-> t.token_expiry_date]

PayPalRows ==
    {PayPalRow("https://pay/", t) : t \in StoredTokens}
    \cup {PayPalRow(u, [token_type |-> "Bearer", access_token |-> "T1",
                        token_expiry_date |-> <<0>>]) : u \in {None, ""}}

\* a service (#2) of an API type without adapter class, behind a proxy
OtherRow ==
    [id |-> 2, api_type |-> "OTHER", base_url |-> "https://other/",
     use_proxy |-> TRUE, proxy |-> "http://proxy:3128",
     username |-> None, password |-> None,
     token_type |-> None, access_token |-> None, token_expiry_date |-> Nil]

\* the subscriptions on record: #1 of the PayPal service, #2 without
\* service, #3 of the service without adapter class, #4 of a service that
\* is not on record, #5 of the PayPal service without reference number
Subscriptions ==
    (1 :> [id |-> 1, service_id |-> <<1>>, refno |-> "REF1", status |-> "PENDING"])
    @@ (2 :> [id |-> 2, service_id |-> Nil, refno |-> "REF1", status |-> "PENDING"])
    @@ (3 :> [id |-> 3, service_id |-> <<2>>, refno |-> "REF1", status |-> "PENDING"])
    @@ (4 :> [id |-> 4, service_id |-> <<3>>, refno |-> "REF1", status |-> "PENDING"])
    @@ (5 :> [id |-> 5, service_id |-> <<1>>, refno |-> None, status |-> "PENDING"])

\* current.response without notices
NoNotices == [confirmation |-> None, warning |-> None, error |-> None]

\* a token request that has not begun
NoRequest ==
    [pc |-> "begin", adapter |-> Nil, token |-> None, token_type |-> None,
     refreshes |-> 0, tok |-> NoToken("none"), headers |-> <<>>,
     sent |-> FALSE, raised |-> None]

Requesters == 1..MaxRequests

NoRequests == [p \in Requesters |-> NoRequest]

InitTables ==
    /\ \E row \in PayPalRows : fin_payment_service = (1 :> row) @@ (2 :> OtherRow)
    /\ adapter = Nil
    /\ utcnow = 0
    /\ wallclock = 0
    /\ fin_payment_log = <<>>
    /\ committed = 0
    /\ logfile = <<>>
    /\ fin_subscription = Subscriptions
    /\ response = NoNotices
    /\ inflight = NoRequests
    /\ last = Idle("start")

(***************************************************************************)
(* Operations of the adapter                                               *)
(***************************************************************************)
\* S3PaymentService.adapter(service_id)
Adapter(service_id) ==
    LET r == AdapterFor(fin_payment_service, service_id)
    IN  /\ adapter' = IF r.raised = None THEN r.adapter ELSE adapter
        /\ last' = [Idle("adapter") EXCEPT !.raised = r.raised,
                                           !.args = <<service_id>>]
        /\ UNCHANGED <<inflight, fin_payment_service, utcnow, wallclock, fin_payment_log,
                       committed, logfile, fin_subscription, response>>

\* S3PaymentService(row): an adapter that overrides no API function
Instantiate(service_id) ==
    /\ service_id \in DOMAIN fin_payment_service
    /\ adapter' = <<NewService("S3PaymentService", fin_payment_service[service_id])>>
    /\ last' = Idle("init")
    /\ UNCHANGED <<inflight, fin_payment_service, utcnow, wallclock, fin_payment_log,
                   committed, logfile, fin_subscription, response>>

\* adapter.name(...) for an API function that the class of the adapter
\* has from the base class
ApiCall(name) ==
    /\ adapter # Nil
    /\ adapter[1].cls = "S3PaymentService"
    /\ LET o == ApiFunction(name)
       IN  last' = [Idle("api") EXCEPT !.args = <<name>>, !.raised = o.raised,
                                       !.ret = o.ret]
    /\ UNCHANGED <<inflight, fin_payment_service, adapter, utcnow, wallclock,
                   fin_payment_log, committed, logfile, fin_subscription,
                   response>>

\* the outcomes of get_access_token that a call of http() can meet
TokenChoices(a, call, now) ==
    IF ~NoBaseUrl(a.base_url) /\ call.auth = "Token"
       /\ NeedsRefresh(a.access_token, a.token_expiry_date, now)
    THEN TokenOutcomes(a, now)
    ELSE {NoToken("none")}

\* the outcomes of opener.open that a call of http() can meet
NetChoices(a, call, tok, now) ==
    IF HttpCall(a, call, tok, NoNet, now).last.sent THEN NetOutcomes ELSE {NoNet}

\* adapter.http(...)
Http(call) ==
    /\ adapter # Nil
    /\ \E tok \in TokenChoices(adapter[1], call, utcnow) :
       \E net \in NetChoices(adapter[1], call, tok, utcnow) :
          LET r == HttpCall(adapter[1], call, tok, net, utcnow)
          IN  /\ adapter' = <<r.adapter>>
              /\ fin_payment_service' =
                    IF r.last.refreshes > 0
                    THEN PersistToken(fin_payment_service, adapter[1], tok)
                    ELSE fin_payment_service
              /\ last' = r.last
    /\ UNCHANGED <<inflight, utcnow, wallclock, fin_payment_log, committed, logfile,
                   fin_subscription, response>>

(***************************************************************************)
(* Token requests that run concurrently: each request has an adapter of    *)
(* its own, made from the service configuration (#1) that all of them      *)
(* share, and goes through _http_opener (lines 528-539) step by step       *)
(***************************************************************************)
\* the tokens the provider issues, in the order in which it issues them
IssuedTokens == <<"T2", "T3", "T4", "T5">>

\* the number of tokens the provider has issued to the requests
Issued(requests) ==
    Cardinality({p \in DOMAIN requests : Truthy(requests[p].tok.token)})

\* what a call of get_access_token can get from the provider after n
\* tokens were issued: a new token that expires later or never, no token,
\* or an exception
RaceOutcomes(n, now) ==
    {NoToken("return"), NoToken("NotImplementedError"), NoToken("RuntimeError")}
    \cup {[kind |-> "return", token |-> IssuedTokens[n + 1],
            token_type |-> tt, expiry |-> e] :
            tt \in TokenTypes, e \in {Nil, <<now + 1>>}}

\* the request begins: S3PaymentService.adapter(1) makes its adapter
RequestBegins(p) ==
    /\ inflight[p].pc = "begin"
    /\ LET f == AdapterFor(fin_payment_service, 1)
       IN  inflight' = [inflight EXCEPT ![p].pc = "opener",
                                        ![p].adapter = f.adapter]
    /\ UNCHANGED <<fin_payment_service, adapter, utcnow, wallclock,
                   fin_payment_log, committed, logfile, fin_subscription,
                   response, last>>

\* lines 529-533: the token, its type and its expiry date are read from
\* the adapter, and the need for a new token is decided
ReadToken(p) ==
    /\ inflight[p].pc = "opener"
    /\ LET a == inflight[p].adapter[1]
       IN  inflight' =
              [inflight EXCEPT
                  ![p].token = a.access_token,
                  ![p].token_type = HeaderTokenType(a),
                  ![p].pc = IF NeedsRefresh(a.access_token,
                                            a.token_expiry_date, utcnow)
                            THEN "refresh" ELSE "header"]
    /\ UNCHANGED <<fin_payment_service, adapter, utcnow, wallclock,
                   fin_payment_log, committed, logfile, fin_subscription,
                   response, last>>

\* line 535, first part: get_access_token asks the provider for a token
AskProvider(p) ==
    /\ inflight[p].pc = "refresh"
    /\ \E tok \in RaceOutcomes(Issued(inflight), utcnow) :
          inflight' =
             [inflight EXCEPT
                 ![p].refreshes = @ + 1,
                 ![p].tok = tok,
                 ![p].raised = IF tok.kind # "return" /\ ~OpenerCatches(tok.kind)
                               THEN tok.kind ELSE None,
                 ![p].token = IF tok.kind = "return" /\ Truthy(tok.token)
                              THEN @ ELSE None,
                 ![p].pc = IF tok.kind # "return" /\ ~OpenerCatches(tok.kind)
                           THEN "done"
                           ELSE IF tok.kind = "return" /\ Truthy(tok.token)
                           THEN "store" ELSE "header"]
    /\ UNCHANGED <<fin_payment_service, adapter, utcnow, wallclock,
                   fin_payment_log, committed, logfile, fin_subscription,
                   response, last>>

\* line 535, second part: get_access_token stores the new token on the
\* adapter and in the service configuration, and returns it
StoreNewToken(p) ==
    /\ inflight[p].pc = "store"
    /\ LET a == inflight[p].adapter[1]
           tok == inflight[p].tok
       IN  /\ inflight' = [inflight EXCEPT ![p].adapter = <<StoreToken(a, tok)>>,
                                            ![p].token = tok.token,
                                            ![p].pc = "header"]
           /\ fin_payment_service' = PersistToken(fin_payment_service, a, tok)
           /\ last' = [Idle("get_access_token") EXCEPT !.tok = tok,
                                                       !.refreshes = 1,
                                                       !.args = <<p>>]
    /\ UNCHANGED <<adapter, utcnow, wallclock, fin_payment_log, committed,
                   logfile, fin_subscription, response>>

\* variant: the header is added whether there is a token or not
SendRequestAlways(p) ==
    /\ inflight[p].pc = "header"
    /\ inflight' =
          [inflight EXCEPT
              ![p].headers = << <<"Authorization", inflight[p].token_type,
                                  inflight[p].token>> >>,
              ![p].sent = TRUE,
              ![p].pc = "done"]
    /\ UNCHANGED <<fin_payment_service, adapter, utcnow, wallclock,
                   fin_payment_log, committed, logfile, fin_subscription,
                   response, last>>

\* lines 538-539: the Authorization header is added if there is a token,
\* and the request is sent
SendRequest(p) ==
    /\ inflight[p].pc = "header"
    /\ inflight' =
          [inflight EXCEPT
              ![p].headers = IF Truthy(inflight[p].token)
                             THEN << <<"Authorization", inflight[p].token_type,
                                       inflight[p].token>> >>
                             ELSE <<>>,
              ![p].sent = TRUE,
              ![p].pc = "done"]
    /\ UNCHANGED <<fin_payment_service, adapter, utcnow, wallclock,
                   fin_payment_log, committed, logfile, fin_subscription,
                   response, last>>

(***************************************************************************)
(* The clocks                                                              *)
(***************************************************************************)
\* a later request begins: current.request.utcnow is taken from the clock
BeginRequest ==
    /\ \E t \in (wallclock + 1)..MaxTime : wallclock' = t /\ utcnow' = t
    /\ last' = Idle("request")
    /\ UNCHANGED <<inflight, fin_payment_service, adapter, fin_payment_log,
                   committed, logfile, fin_subscription, response>>

(***************************************************************************)
(* Operations of the log writer, and the transaction around them           *)
(***************************************************************************)
\* S3PaymentLog(service_id).write(action, result, reason), called as op
LogWrite(op, service_id, action, result, reason) ==
    /\ Len(WriteTable(fin_payment_log, wallclock, service_id,
                      action, result, reason)) <= MaxLog
    /\ Len(WriteLogFile(logfile, service_id, action, result, reason)) <= MaxLog
    /\ fin_payment_log' = WriteTable(fin_payment_log, wallclock, service_id,
                                     action, result, reason)
    /\ logfile' = WriteLogFile(logfile, service_id, action, result, reason)
    /\ last' = [Idle(op) EXCEPT !.args = <<service_id, action, result, reason>>]
    /\ UNCHANGED <<inflight, fin_payment_service, adapter, utcnow, wallclock, committed,
                   fin_subscription, response>>

Write(service_id, action, result, reason) ==
    LogWrite("write", service_id, action, result, reason)

\* the shortcuts (lines 202-211)
Info(service_id, action, reason) == LogWrite("info", service_id, action, "INFO", reason)

Success(service_id, action, reason) ==
    LogWrite("success", service_id, action, "SUCCESS", reason)

Warning(service_id, action, reason) ==
    LogWrite("warning", service_id, action, "WARNING", reason)

Error(service_id, action, reason) ==
    LogWrite("error", service_id, action, "ERROR", reason)

Fatal(service_id, action, reason) ==
    LogWrite("fatal", service_id, action, "FATAL", reason)

\* the request ends normally: the transaction is committed
Commit ==
    /\ committed < Len(fin_payment_log)
    /\ committed' = Len(fin_payment_log)
    /\ last' = Idle("commit")
    /\ UNCHANGED <<inflight, fin_payment_service, adapter, utcnow, wallclock,
                   fin_payment_log, logfile, fin_subscription, response>>

\* the request ends with an uncaught exception: the transaction is rolled
\* back, and with it the log entries inserted since the last commit (lines
\* 173-175 and 190-192); the log file is no part of the transaction
Rollback ==
    /\ committed < Len(fin_payment_log)
    /\ fin_payment_log' = SubSeq(fin_payment_log, 1, committed)
    /\ last' = Idle("rollback")
    /\ UNCHANGED <<inflight, fin_payment_service, adapter, utcnow, wallclock, committed,
                   logfile, fin_subscription, response>>

(***************************************************************************)
(* S3PaymentService.verify_reference and the REST method S3Payments        *)
(***************************************************************************)
\* r.record: the subscription row the request names, or Nil
Record(r, subscriptions) ==
    IF r.record # Nil /\ r.record[1] \in DOMAIN subscriptions
    THEN <<subscriptions[r.record[1]]>>
    ELSE Nil

\* variant: there is no branch for the status APPROVED
ConfirmNoticesNoApproved(status) ==
    IF status = "ACTIVE"
    THEN [NoNotices EXCEPT !.confirmation = "Subscription activated"]
    ELSE IF Truthy(status)
    THEN [NoNotices EXCEPT !.warning = "Subscription inactive"]
    ELSE [NoNotices EXCEPT !.error = "Could not verify subscription status"]

\* variant: a status that is not ACTIVE gives a warning, also no status
ConfirmNoticesWarnEmpty(status) ==
    IF status = "ACTIVE"
    THEN [NoNotices EXCEPT !.confirmation = "Subscription activated"]
    ELSE IF status = "APPROVED" THEN NoNotices
    ELSE [NoNotices EXCEPT !.warning = "Subscription inactive"]

\* variant: only a subscription that is pending passes
VerifyReferencePending(r, subscriptions) ==
    LET record == Record(r, subscriptions)
    IN  IF record = Nil \/ ~Truthy(record[1].refno)
        THEN FALSE
        ELSE r.subscription_id = record[1].refno /\ record[1].status = "PENDING"

\* variant: any reference given in the URL is accepted
VerifyReferenceAnyGiven(r, subscriptions) ==
    Record(r, subscriptions) # Nil /\ Truthy(r.subscription_id)

\* variant: the record is not required to have a reference number
VerifyReferenceNoRefno(r, subscriptions) ==
    LET record == Record(r, subscriptions)
    IN  IF record = Nil THEN FALSE ELSE r.subscription_id = record[1].refno

\* verify_reference(r) (lines 367-385)
VerifyReference(r, subscriptions) ==
    LET record == Record(r, subscriptions)
    IN  IF record = Nil \/ ~Truthy(record[1].refno)
        THEN FALSE
        ELSE r.subscription_id = record[1].refno

\* what the provider's check_subscription can return: a status, or None
CheckOutcomes == {None, "", "ACTIVE", "APPROVED", "SUSPENDED", "ON_HOLD_7"}

\* what the provider's cancel_subscription can return
CancelOutcomes == {TRUE, FALSE}

\* the outcome of a method that ends with r.error(status, message)
Rejected(calls, status, message, subscriptions, table, file) ==
    [rejected |-> <<status, message>>, calls |-> calls, response |-> NoNotices,
     proceed |-> FALSE, subscriptions |-> subscriptions,
     table |-> table, file |-> file, arg |-> Nil]

\* variant: the notices set before the method returns are lost
ProceedsWithoutNotice(calls, notices, subscriptions, table, file) ==
    [rejected |-> Nil, calls |-> calls, response |-> NoNotices,
     proceed |-> TRUE, subscriptions |-> subscriptions,
     table |-> table, file |-> file, arg |-> Nil]

\* the outcome of a method that returns after r.http = "POST" and
\* self.next = r.url(method="")
Proceeds(calls, notices, subscriptions, table, file) ==
    [rejected |-> Nil, calls |-> calls, response |-> notices,
     proceed |-> TRUE, subscriptions |-> subscriptions,
     table |-> table, file |-> file, arg |-> Nil]

\* the subscription table after check_subscription returned status
CheckedStatus(subscriptions, id, status) ==
    IF Truthy(status)
    THEN [subscriptions EXCEPT ![id].status = status]
    ELSE subscriptions

\* the subscription table after cancel_subscription returned True
CancelledStatus(subscriptions, id) ==
    [subscriptions EXCEPT ![id].status = "CANCELLED"]

\* the log table after the provider's operation logged its outcome with
\* S3PaymentLog.success or S3PaymentLog.error
ProviderTable(table, date, service_id, action, ok) ==
    WriteTable(table, date, service_id, action,
               IF ok THEN "SUCCESS" ELSE "ERROR", IF ok THEN None ELSE "HTTP 500")

\* the log file after the provider's operation logged its outcome
ProviderFile(file, service_id, action, ok) ==
    WriteLogFile(file, service_id, action,
                 IF ok THEN "SUCCESS" ELSE "ERROR", IF ok THEN None ELSE "HTTP 500")

\* the outcome w of a method that has called the provider's operation with
\* the subscription id
CalledWith(id, w) == [w EXCEPT !.arg = <<id>>]

\* the notices confirm_subscription sets for a status (lines 96-109)
ConfirmNotices(status) ==
    IF status = "ACTIVE"
    THEN [NoNotices EXCEPT !.confirmation = "Subscription activated"]
    ELSE IF status = "APPROVED" THEN NoNotices
    ELSE IF Truthy(status)
    THEN [NoNotices EXCEPT !.warning = "Subscription inactive"]
    ELSE [NoNotices EXCEPT !.error = "Could not verify subscription status"]

\* confirm_subscription(r) (lines 73-114), where check_subscription, if
\* called, returns status
ConfirmSubscription(r, services, subscriptions, table, file, date, status) ==
    LET record == Record(r, subscriptions)
    IN  IF record = Nil \/ ~TruthyId(record[1].service_id)
        THEN Rejected(<<>>, <<405>>, "Invalid record", subscriptions, table, file)
        ELSE LET f == AdapterFor(services, record[1].service_id[1])
             IN  IF f.raised # None
                 THEN Rejected(<<"adapter">>, <<405>>, "Invalid payment service",
                               subscriptions, table, file)
                 ELSE IF ~VerifyReference(r, subscriptions)
                 THEN Rejected(<<"adapter", "verify_reference">>, <<405>>,
                               "Invalid reference", subscriptions, table, file)
                 ELSE CalledWith(record[1].id,
                        Proceeds(<<"adapter", "verify_reference", "check_subscription">>,
                                 ConfirmNotices(status),
                                 CheckedStatus(subscriptions, record[1].id, status),
                                 ProviderTable(table, date, f.adapter[1].service_id,
                                               "Check subscription", Truthy(status)),
                                 ProviderFile(file, f.adapter[1].service_id,
                                              "Check subscription", Truthy(status))))

\* cancel_subscription(r) (lines 117-148), where the provider's
\* cancel_subscription, if called, returns ok
CancelSubscription(r, services, subscriptions, table, file, date, ok) ==
    LET record == Record(r, subscriptions)
    IN  IF record = Nil \/ ~TruthyId(record[1].service_id)
        THEN Rejected(<<>>, <<405>>, "Invalid record", subscriptions, table, file)
        ELSE LET f == AdapterFor(services, record[1].service_id[1])
             IN  IF f.raised # None
                 THEN Rejected(<<"adapter">>, <<405>>, "Invalid payment service",
                               subscriptions, table, file)
                 ELSE IF ~VerifyReference(r, subscriptions)
                 THEN Rejected(<<"adapter", "verify_reference">>, <<405>>,
                               "Invalid reference", subscriptions, table, file)
                 ELSE LET calls == <<"adapter", "verify_reference", "cancel_subscription">>
                          sid == f.adapter[1].service_id
                      IN  CalledWith(record[1].id,
                          IF ok
                          THEN Proceeds(calls,
                                        [NoNotices EXCEPT
                                            !.confirmation = "Subscription cancelled"],
                                        CancelledStatus(subscriptions, record[1].id),
                                        ProviderTable(table, date, sid,
                                                      "Cancel subscription", TRUE),
                                        ProviderFile(file, sid,
                                                     "Cancel subscription", TRUE))
                          ELSE Rejected(calls, Nil, None, subscriptions,
                                        ProviderTable(table, date, sid,
                                                      "Cancel subscription", FALSE),
                                        ProviderFile(file, sid,
                                                     "Cancel subscription", FALSE)))

\* variant: the method is applied whatever the HTTP verb
ApplyMethodForAnyVerb(r, services, subscriptions, table, file, date, status, ok) ==
    IF r.method = "confirm"
    THEN ConfirmSubscription(r, services, subscriptions, table, file, date, status)
    ELSE IF r.method = "cancel"
    THEN CancelSubscription(r, services, subscriptions, table, file, date, ok)
    ELSE Rejected(<<>>, <<405>>, "BAD_METHOD", subscriptions, table, file)

\* apply_method(r) (lines 50-70)
ApplyMethodFor(r, services, subscriptions, table, file, date, status, ok) ==
    IF r.http = "GET"
    THEN IF r.method = "confirm"
         THEN ConfirmSubscription(r, services, subscriptions, table, file, date, status)
         ELSE IF r.method = "cancel"
         THEN CancelSubscription(r, services, subscriptions, table, file, date, ok)
         ELSE Rejected(<<>>, <<405>>, "BAD_METHOD", subscriptions, table, file)
    ELSE Rejected(<<>>, <<405>>, "BAD_METHOD", subscriptions, table, file)

\* the requests considered
Requests ==
    {r \in [http : {"GET", "POST", "DELETE"}, method : {"confirm", "cancel", "read"},
            record : {Nil} \cup {<<i>> : i \in 1..5},
            subscription_id : {None, "REF1", "REF2"}] :
        /\ r.record # <<1>> => r.subscription_id = "REF1"
        /\ (r.http # "GET" \/ r.method = "read") =>
              r.record = <<1>> /\ r.subscription_id = "REF1"}

\* the requests verify_reference is called with: the record is absent, has
\* a reference number (#1) or has none (#5); subscription_id is absent,
\* empty, the reference number, or another string
VerifyRequests ==
    [http : {"GET"}, method : {"confirm"}, record : {Nil, <<1>>, <<5>>},
     subscription_id : {None, "", "REF1", "REF2", "ref1"}]

\* the provider is asked only by a request that passes the checks
ReachesProvider(r, method) ==
    /\ r.http = "GET" /\ r.method = method
    /\ ConfirmSubscription(r, fin_payment_service, fin_subscription,
                           <<>>, <<>>, 0, None).proceed

\* S3Payments.apply_method(r), while the log has no more than maxlog entries
ApplyMethodUpTo(r, maxlog) ==
    \E status \in IF ReachesProvider(r, "confirm") THEN CheckOutcomes ELSE {None} :
    \E ok \in IF ReachesProvider(r, "cancel") THEN CancelOutcomes ELSE {FALSE} :
        LET w == ApplyMethodFor(r, fin_payment_service, fin_subscription,
                                fin_payment_log, logfile, wallclock, status, ok)
        IN  /\ Len(w.table) <= maxlog
            /\ Len(w.file) <= maxlog
            /\ fin_payment_log' = w.table
            /\ logfile' = w.file
            /\ fin_subscription' = w.subscriptions
            /\ response' = w.response
            /\ last' = [Idle("apply_method") EXCEPT
                           !.args = <<r>>, !.calls = w.calls,
                           !.rejected = w.rejected, !.proceed = w.proceed,
                           !.provider =
                               IF "check_subscription" \in Range(w.calls)
                               THEN <<status, w.arg[1]>>
                               ELSE IF "cancel_subscription" \in Range(w.calls)
                               THEN <<IF ok THEN "True" ELSE False, w.arg[1]>>
                               ELSE Nil]
            /\ UNCHANGED <<inflight, fin_payment_service, adapter, utcnow, wallclock, committed>>

\* S3Payments.apply_method(r)
ApplyMethod(r) == ApplyMethodUpTo(r, MaxLog)

\* adapter.verify_reference(r)
Verify(r) ==
    /\ last' = [Idle("verify_reference") EXCEPT
                   !.args = <<r>>,
                   !.ret = <<VerifyReference(r, fin_subscription)>>]
    /\ UNCHANGED <<inflight, fin_payment_service, adapter, utcnow, wallclock,
                   fin_payment_log, committed, logfile, fin_subscription, response>>


(***************************************************************************)
(* Specifications                                                          *)
(***************************************************************************)
\* the HTTP client: adapters are made and used for requests while time passes
Next ==
    \/ \E service_id \in ServiceIds : Adapter(service_id)
    \/ Instantiate(2)
    \/ \E call \in Calls : Http(call)
    \/ BeginRequest

Spec == InitTables /\ [][Next]_vars

\* the log writer: entries are written for the PayPal service, and the
\* transaction around them is committed or rolled back
LogActions == {None, "", "Test"}
LogReasons == {None, "why"}

NextLog ==
    \/ \E action \in LogActions, result \in {None, ""} \cup LogResults,
          reason \in LogReasons : Write(1, action, result, reason)
    \/ \E action \in LogActions, reason \in LogReasons : Info(1, action, reason)
    \/ \E action \in LogActions, reason \in LogReasons : Success(1, action, reason)
    \/ \E action \in LogActions, reason \in LogReasons : Warning(1, action, reason)
    \/ \E action \in LogActions, reason \in LogReasons : Error(1, action, reason)
    \/ \E action \in LogActions, reason \in LogReasons : Fatal(1, action, reason)
    \/ Commit
    \/ Rollback

InitLog ==
    /\ InitTables
    /\ fin_payment_service[1] =
          PayPalRow("https://pay/", [token_type |-> None, access_token |-> None,
                                     token_expiry_date |-> Nil])

SpecLog == InitLog /\ [][NextLog]_vars

\* the core: log entries are written, adapters are made and used, and
\* requests to confirm or cancel a subscription are handled
CoreCalls == {c \in Calls : c.method = "GET" /\ c.decode = "json" /\ c.auth # "Basic"}

NextCore ==
    \/ \E result \in {"INFO", "ERROR"} : Write(1, "Test", result, None)
    \/ Error(1, "Test", "why")
    \/ \E service_id \in ServiceIds : Adapter(service_id)
    \/ Instantiate(2)
    \/ \E call \in CoreCalls : Http(call)
    \/ \E r \in VerifyRequests : Verify(r)
    \/ \E r \in Requests : ApplyMethod(r)
    \/ \E name \in ApiFunctions : ApiCall(name)

InitCore ==
    /\ InitTables
    /\ fin_payment_service[1] =
          PayPalRow("https://pay/", [token_type |-> "MAC", access_token |-> "T1",
                                     token_expiry_date |-> Nil])

SpecCore == InitCore /\ [][NextCore]_vars

\* the REST method: requests to confirm or cancel a subscription follow
\* each other
NextFlow == \E r \in Requests : ApplyMethodUpTo(r, MaxFlowLog)

SpecFlow == InitCore /\ [][NextFlow]_vars

\* concurrent token requests on the PayPal service, whose token is absent
\* or has expired
RaceRows ==
    {row \in PayPalRows :
        /\ Truthy(row.base_url)
        /\ NeedsRefresh(row.access_token, row.token_expiry_date, 0)}

NextRace ==
    \E p \in Requesters :
        \/ RequestBegins(p)
        \/ ReadToken(p)
        \/ AskProvider(p)
        \/ StoreNewToken(p)
        \/ SendRequest(p)

InitRace == InitTables /\ fin_payment_service[1] \in RaceRows

SpecRace == InitRace /\ [][NextRace]_vars

(***************************************************************************)
(* Properties of http() and _http_opener                                   *)
(***************************************************************************)
\* the last operation was a call of http() that got past the base URL check
\* with auth = "Token"
TokenRequest ==
    /\ last.op = "http"
    /\ last.call.auth = "Token"
    /\ Truthy(last.before[1].base_url)

\* the Authorization headers among the headers sent
Authorization(headers) == SelectSeq(headers, LAMBDA h : h[1] = "Authorization")

\* the adapter held a token before the call, with an expiry date after now
HeldValidToken ==
    /\ Truthy(last.before[1].access_token)
    /\ last.before[1].token_expiry_date # Nil
    /\ last.before[1].token_expiry_date[1] > utcnow

\* the adapter held a token before the call, with an expiry date not after now
HeldExpiredToken ==
    /\ Truthy(last.before[1].access_token)
    /\ last.before[1].token_expiry_date # Nil
    /\ last.before[1].token_expiry_date[1] <= utcnow

\* the call of get_access_token returned a token
RefreshSucceeded ==
    last.refreshes = 1 /\ last.tok.kind = "return" /\ Truthy(last.tok.token)

\* C1: a request with auth = "Token" does not call get_access_token when a
\* token is cached whose expiry date is later than the request time; when no
\* token is cached, or the expiry date is at or before the request time, it
\* calls get_access_token exactly once, before the request is sent: the
\* request is sent only after the call has ended without exception, and
\* carries the token the call returned.
C1_RefreshWhenNeeded ==
    TokenRequest =>
        /\ HeldValidToken => last.refreshes = 0
        /\ (~Truthy(last.before[1].access_token) \/ HeldExpiredToken) =>
              /\ last.refreshes = 1
              /\ last.sent => last.tok.kind \in {"return", "NotImplementedError"}
              /\ (last.sent /\ RefreshSucceeded) =>
                    /\ Len(Authorization(last.headers)) = 1
                    /\ Authorization(last.headers)[1][3] = last.tok.token

\* C1 happens: an expired token made a token request refresh and send
C1_Witness ==
    /\ TokenRequest /\ HeldExpiredToken
    /\ last.before[1].token_expiry_date[1] = utcnow
    /\ RefreshSucceeded /\ last.sent

\* a token request refreshed an expired token, and the new token is a
\* Bearer token that expires later than now
RefreshedExpired ==
    /\ TokenRequest /\ HeldExpiredToken /\ RefreshSucceeded
    /\ last.tok.token_type = "Bearer"
    /\ last.tok.expiry # Nil /\ last.tok.expiry[1] > utcnow

\* the next operation is a token request at the same request time
ThenTokenRequest ==
    /\ last'.op = "http" /\ last'.call.auth = "Token"
    /\ utcnow' = utcnow

\* the second request does not refresh and carries the token of the first
ReusesToken ==
    /\ last'.refreshes = 0
    /\ last'.sent
    /\ Len(Authorization(last'.headers)) = 1
    /\ Authorization(last'.headers)[1][3] = last.tok.token

\* C2 as claimed: after an expired token was refreshed with a Bearer token
\* T2 that expires later than now, the request carries "Authorization:
\* Bearer T2", and a token request that follows at once does not refresh
\* and carries T2.
C2_AsClaimed ==
    [][/\ RefreshedExpired' /\ last'.sent =>
             Authorization(last'.headers) =
                 << <<"Authorization", "Bearer", last'.tok.token>> >>
       /\ RefreshedExpired /\ ThenTokenRequest => ReusesToken]_vars

\* C3 as claimed: when get_access_token is not implemented, returns no
\* token or raises an error, the request is still sent, without
\* Authorization header, and http() returns (output, status, error).
C3_AsClaimed ==
    (TokenRequest /\ last.refreshes = 1 /\ ~RefreshSucceeded) =>
        /\ last.sent
        /\ Authorization(last.headers) = <<>>
        /\ last.raised = None
        /\ last.ret # Nil

\* C4: without base URL, http() returns (None, None, "No base URL set"),
\* sends nothing, does not call get_access_token and leaves the token of the
\* adapter and of the service configuration as they were.
C4_NoBaseUrl ==
    [][(last'.op = "http"
        /\ (adapter[1].base_url = None \/ adapter[1].base_url = "")) =>
           /\ last'.ret = << <<None, Nil, "No base URL set">> >>
           /\ ~last'.sent
           /\ last'.refreshes = 0
           /\ last'.raised = None
           /\ adapter' = adapter
           /\ fin_payment_service' = fin_payment_service]_vars

\* C4 happens: a token request on an adapter with an empty base URL and an
\* expired token has returned the error
C4_Witness ==
    /\ last.op = "http" /\ last.call.auth = "Token"
    /\ last.before[1].base_url = ""
    /\ HeldExpiredToken
    /\ last.ret = << <<None, Nil, "No base URL set">> >>

\* C5: a failure of opener.open does not escape from http(): an HTTP error
\* gives status = the code and error = the response body, a network error
\* gives no status and error = the reason, or "Unknown network error" when
\* there is none, any other exception gives no status and error = the
\* exception; output is None in all three cases.
C5_FailuresReturned ==
    (last.op = "http" /\ last.sent) =>
        /\ last.raised = None
        /\ last.ret # Nil
        /\ last.net.kind = "HTTPError" =>
              last.ret[1] = <<None, <<last.net.code>>, last.net.body[2]>>
        /\ last.net.kind = "URLError" =>
              last.ret[1] = <<None, Nil, IF last.net.reason \in {None, ""}
                                         THEN "Unknown network error"
                                         ELSE last.net.reason>>
        /\ last.net.kind = "SSLError" =>
              last.ret[1] = <<None, Nil, last.net.reason>>

\* C5 happens: the provider answered 401, which http() returned
C5_Witness ==
    /\ last.op = "http" /\ last.sent
    /\ last.net.kind = "HTTPError"
    /\ last.ret = << <<None, <<401>>, "denied">> >>

\* a response was received from the provider
ResponseReceived == last.sent /\ last.net.kind \in {"ok", "HTTPError"}

\* the response was decoded as JSON and is the JSON value null
JsonNull ==
    /\ last.sent /\ last.net.kind = "ok"
    /\ last.call.decode = "json" /\ last.net.body[2] = "null"

\* C6 as claimed: of output and error exactly one is not None whenever
\* http() returns, and status is not None whenever a response was received.
C6_AsClaimed ==
    (last.op = "http" /\ last.ret # Nil) =>
        /\ (last.ret[1][1] # None) # (last.ret[1][3] # None)
        /\ ResponseReceived => last.ret[1][2] # Nil

\* C6 amended: output and error are never both set; both are None exactly
\* when a response was decoded as JSON and is the JSON value null; status is
\* set whenever a response was received, also when its JSON body fails to
\* parse (error is the parse error, output None) and on an HTTP error.
C6_OutputOrError ==
    (last.op = "http" /\ last.ret # Nil) =>
        /\ last.ret[1][1] = None \/ last.ret[1][3] = None
        /\ (last.ret[1][1] = None /\ last.ret[1][3] = None) <=> JsonNull
        /\ ResponseReceived => last.ret[1][2] = <<last.net.code>>
        /\ (last.sent /\ last.net.kind = "ok" /\ last.call.decode = "json"
            /\ last.net.body[2] \notin JsonDocuments) =>
              last.ret[1][1] = None /\ last.ret[1][3] = "ValueError"

\* C6 happens: a response that is not JSON was decoded as JSON
C6_Witness ==
    /\ last.op = "http" /\ last.sent /\ last.net.kind = "ok"
    /\ last.call.decode = "json" /\ last.net.body[2] = "<html>"
    /\ last.ret = << <<None, <<200>>, "ValueError">> >>

(***************************************************************************)
(* Properties of the log writer                                            *)
(***************************************************************************)
WriteOps == {"write", "info", "success", "warning", "error", "fatal"}

\* the entry is one of those that record a failure
Critical(entry) == entry.result \in {"ERROR", "FATAL"}

\* the log file has a line for the entry
Mirrored(entry, file) ==
    \E i \in DOMAIN file :
        /\ file[i][2] = entry.service_id
        /\ file[i][4] = entry.action
        /\ Truthy(entry.reason) => Len(file[i]) > 5 /\ file[i][6] = entry.reason

\* C7 as claimed: an ERROR or FATAL entry that write() has inserted stays
\* in the log table, also when the transaction is rolled back afterwards.
C7_AsClaimed ==
    [][\A i \in DOMAIN fin_payment_log :
          Critical(fin_payment_log[i]) =>
              /\ i \in DOMAIN fin_payment_log'
              /\ fin_payment_log'[i] = fin_payment_log[i]]_vars

\* C7 amended: an ERROR or FATAL entry that write() has inserted has a line
\* in the log file, and the lines of the log file stay, also when the
\* transaction is rolled back; in the log table the entries stay that were
\* committed before.
C7_FailuresKept ==
    [][/\ \A i \in DOMAIN fin_payment_log' :
             Critical(fin_payment_log'[i]) => Mirrored(fin_payment_log'[i], logfile')
       /\ IsPrefix(logfile, logfile')
       /\ IsPrefix(SubSeq(fin_payment_log, 1, committed), fin_payment_log')]_vars

\* C7 happens: an ERROR entry was rolled back, and its line is in the log file
C7_Witness ==
    /\ last.op = "rollback"
    /\ fin_payment_log = <<>>
    /\ logfile = <<LogMessage(1, "Test", None)>>

\* C8: write(action, result, reason) with action and result adds exactly
\* one entry to the log table; for ERROR and FATAL it also adds exactly one
\* line to the log file, which names the service, the action and the
\* reason; for INFO, SUCCESS and WARNING it adds none.  info, success,
\* warning, error and fatal do what write does with their result.
C8_WriteAddsOne ==
    [][(last'.op \in WriteOps /\ Truthy(last'.args[2]) /\ Truthy(last'.args[3])) =>
          LET entry == [date |-> wallclock, service_id |-> last'.args[1],
                        action |-> last'.args[2], result |-> last'.args[3],
                        reason |-> last'.args[4]]
          IN  /\ fin_payment_log' = Append(fin_payment_log, entry)
              /\ Critical(entry) =>
                    /\ Len(logfile') = Len(logfile) + 1
                    /\ IsPrefix(logfile, logfile')
                    /\ Mirrored(entry, <<logfile'[Len(logfile')]>>)
              /\ entry.result \in {"INFO", "SUCCESS", "WARNING"} => logfile' = logfile
              /\ last'.op = "info" => entry.result = "INFO"
              /\ last'.op = "success" => entry.result = "SUCCESS"
              /\ last'.op = "warning" => entry.result = "WARNING"
              /\ last'.op = "error" => entry.result = "ERROR"
              /\ last'.op = "fatal" => entry.result = "FATAL"]_vars

\* C8 happens: fatal() has added an entry and a line with the reason
C8_Witness ==
    /\ last.op = "fatal"
    /\ last.args = <<1, "Test", "FATAL", "why">>
    /\ fin_payment_log = <<LogEntry(wallclock, 1, "Test", "FATAL", "why")>>
    /\ logfile = <<LogMessage(1, "Test", "why")>>

\* C9: write(action, result, reason) without action or without result
\* changes neither the log table nor the log file, whatever the reason.
C9_WriteSkips ==
    [][(last'.op \in WriteOps
        /\ (last'.args[2] \in {None, ""} \/ last'.args[3] \in {None, ""})) =>
          /\ fin_payment_log' = fin_payment_log
          /\ logfile' = logfile]_vars

\* C9 happens: write() without action, for ERROR and with a reason, has
\* left the log table with its entry and the log file empty
C9_Witness ==
    /\ last.op = "write"
    /\ last.args = <<1, "", "ERROR", "why">>
    /\ Len(fin_payment_log) = 1
    /\ logfile = <<>>

Handles(method) ==
    /\ last'.op = "apply_method"
    /\ last'.args[1].http = "GET"
    /\ last'.args[1].method = method

\* the record of the request of the step is missing or has no service id
NoRecord ==
    LET r == last'.args[1]
    IN  \/ r.record = Nil
        \/ fin_subscription[r.record[1]].service_id \in {Nil, <<0>>}

\* the reference number of the record does not match the subscription_id
\* of the request of the step
NoMatch ==
    LET r == last'.args[1]
    IN  /\ r.record # Nil
        /\ r.subscription_id # fin_subscription[r.record[1]].refno

ProviderOps == {"check_subscription", "cancel_subscription"}

\* the step has ended with r.error(405, ...) and changed nothing
RejectedUnchanged ==
    /\ last'.rejected # Nil
    /\ last'.rejected[1] = <<405>>
    /\ ~last'.proceed
    /\ Range(last'.calls) \cap ProviderOps = {}
    /\ fin_subscription' = fin_subscription
    /\ fin_payment_log' = fin_payment_log
    /\ logfile' = logfile

\* C11: confirm and cancel call check_subscription or cancel_subscription
\* only after verify_reference has returned True; when the record or its
\* service id is missing, or the reference number of the record does not
\* match the subscription_id given, the request is rejected with 405, the
\* provider is not called, the subscription keeps its status and no log
\* entry is written.
C11_VerifiedFirst ==
    [][(Handles("confirm") \/ Handles("cancel")) =>
          /\ Range(last'.calls) \cap ProviderOps # {} =>
                /\ Len(last'.calls) = 3
                /\ last'.calls[2] = "verify_reference"
                /\ last'.calls[3] \in ProviderOps
                /\ ~NoRecord /\ ~NoMatch
          /\ (NoRecord \/ NoMatch) => RejectedUnchanged]_vars

\* C11 happens: confirm with a reference that is not the one of the record
\* was rejected after verify_reference
C11_Witness ==
    /\ last.op = "apply_method"
    /\ last.args = <<[http |-> "GET", method |-> "confirm", record |-> <<1>>,
                      subscription_id |-> "REF2"]>>
    /\ last.calls = <<"adapter", "verify_reference">>
    /\ last.rejected = << <<405>>, "Invalid reference">>
    /\ fin_subscription[1].status = "PENDING"

\* C12: verify_reference(r) returns False when the record is absent or has
\* no reference number, False when subscription_id is absent, and True if
\* and only if subscription_id equals the reference number of the record;
\* it changes no state.
C12_VerifyReference ==
    [][last'.op = "verify_reference" =>
          LET r == last'.args[1]
              ret == last'.ret[1]
          IN  /\ r.record = Nil => ret = FALSE
              /\ (r.record # Nil /\ fin_subscription[r.record[1]].refno \in {None, ""})
                    => ret = FALSE
              /\ r.subscription_id = None => ret = FALSE
              /\ (r.record # Nil /\ fin_subscription[r.record[1]].refno \notin {None, ""})
                    => (ret = TRUE <=>
                          r.subscription_id = fin_subscription[r.record[1]].refno)
              /\ UNCHANGED <<fin_payment_service, adapter, utcnow, wallclock,
                             fin_payment_log, committed, logfile,
                             fin_subscription, response>>]_vars

\* C12 happens: verify_reference has refused a reference that differs from
\* the one of the record in case only
C12_Witness ==
    /\ last.op = "verify_reference"
    /\ last.args[1].record = <<1>>
    /\ last.args[1].subscription_id = "ref1"
    /\ last.ret = <<FALSE>>

\* the step is confirm past the checks: check_subscription has returned
Checked == Handles("confirm") /\ "check_subscription" \in Range(last'.calls)

\* the notices of the response that are set
Notices(resp) == {k \in {"confirmation", "warning", "error"} : resp[k] # None}

\* C13 as claimed: after the checks, confirm gives the confirmation for
\* the status "ACTIVE", the error for no status or an empty one, and the
\* warning for every other status, and does not raise.
C13_AsClaimed ==
    [][Checked =>
          LET status == last'.provider[1]
          IN  /\ last'.raised = None /\ last'.rejected = Nil
              /\ status = "ACTIVE" => Notices(response') = {"confirmation"}
              /\ status \in {None, ""} => Notices(response') = {"error"}
              /\ status \notin {None, "", "ACTIVE"} =>
                    Notices(response') = {"warning"}]_vars

\* C13 amended: after the checks, confirm gives the confirmation for the
\* status "ACTIVE", the error for no status or an empty one, no notice for
\* "APPROVED", and the warning for every other status, known or not, and
\* does not raise.
C13_StatusMapping ==
    [][Checked =>
          LET status == last'.provider[1]
          IN  /\ last'.raised = None /\ last'.rejected = Nil
              /\ status = "ACTIVE" =>
                    response' = [NoNotices EXCEPT
                                    !.confirmation = "Subscription activated"]
              /\ status \in {None, ""} =>
                    response' = [NoNotices EXCEPT
                                    !.error = "Could not verify subscription status"]
              /\ status = "APPROVED" => response' = NoNotices
              /\ status \notin {None, "", "ACTIVE", "APPROVED"} =>
                    response' = [NoNotices EXCEPT
                                    !.warning = "Subscription inactive"]]_vars

\* C13 happens: check_subscription returned a status that is not known,
\* and confirm has set the warning
C13_Witness ==
    /\ last.op = "apply_method"
    /\ last.args[1].method = "confirm"
    /\ last.provider = <<"ON_HOLD_7", 1>>
    /\ response.warning = "Subscription inactive"
    /\ last.proceed

\* the step is cancel past the checks: cancel_subscription has returned
Cancelled == Handles("cancel") /\ "cancel_subscription" \in Range(last'.calls)

\* C14 as claimed: when check_subscription returns no status, or
\* cancel_subscription returns False, the method sets a warning or an
\* error notice and ends with r.http = "POST" and self.next set.
C14_AsClaimed ==
    [][((Checked /\ last'.provider[1] \in {None, ""})
        \/ (Cancelled /\ last'.provider[1] = False)) =>
          /\ last'.proceed
          /\ last'.rejected = Nil
          /\ Notices(response') \cap {"warning", "error"} # {}]_vars

\* C15: after the checks, cancel calls cancel_subscription once, with the
\* id of the record; when that returns True, cancel sets the confirmation
\* and ends with r.http = "POST" and self.next set; when it returns False,
\* cancel ends with an error and the confirmation is not set.
C15_CancelOutcome ==
    [][Cancelled =>
          /\ Len(SelectSeq(last'.calls, LAMBDA c : c = "cancel_subscription")) = 1
          /\ last'.provider[2] = last'.args[1].record[1]
          /\ last'.provider[1] = "True" =>
                /\ response' = [NoNotices EXCEPT
                                   !.confirmation = "Subscription cancelled"]
                /\ last'.proceed /\ last'.rejected = Nil
          /\ last'.provider[1] = False =>
                /\ last'.rejected # Nil
                /\ ~last'.proceed
                /\ response'.confirmation = None]_vars

\* C15 happens: cancel_subscription returned False for subscription #1
C15_Witness ==
    /\ last.op = "apply_method"
    /\ last.args[1].method = "cancel"
    /\ last.provider = <<False, 1>>
    /\ last.rejected # Nil
    /\ response.confirmation = None

\* the step repeats the request of the step before, and the provider, if
\* asked, answers what it answered before
Repeats ==
    /\ last.op = "apply_method" /\ last'.op = "apply_method"
    /\ last'.args = last.args
    /\ last.args[1].http = "GET" /\ last.args[1].method \in {"confirm", "cancel"}
    /\ (last.provider # Nil /\ last'.provider # Nil) => last'.provider = last.provider

C17_MethodNotAllowed ==
    [][(last'.op = "apply_method"
        /\ (last'.args[1].http # "GET"
            \/ last'.args[1].method \notin {"confirm", "cancel"})) =>
          /\ last'.rejected = << <<405>>, "BAD_METHOD">>
          /\ last'.calls = <<>>
          /\ last'.provider = Nil
          /\ ~last'.proceed
          /\ response' = NoNotices
          /\ UNCHANGED <<fin_payment_service, adapter, utcnow, wallclock,
                         fin_payment_log, committed, logfile,
                         fin_subscription>>]_vars

\* C17 happens: a POST for confirm with the right reference was rejected,
\* while the log has an entry
C17_Witness ==
    /\ last.op = "apply_method"
    /\ last.args = <<[http |-> "POST", method |-> "confirm", record |-> <<1>>,
                      subscription_id |-> "REF1"]>>
    /\ last.rejected = << <<405>>, "BAD_METHOD">>
    /\ Len(fin_payment_log) = 1

\* the service of the record of the request of the step is not on record,
\* or of an API type without adapter class
NoService ==
    LET sid == fin_subscription[last'.args[1].record[1]].service_id[1]
    IN  \/ sid \notin DOMAIN fin_payment_service
        \/ fin_payment_service[sid].api_type # "PAYPAL"

\* C18: adapter(service_id) raises KeyError when there is no configuration
\* of the service, ValueError when its API type has no adapter class, and
\* otherwise returns an adapter with the id, base URL, credentials and token
\* of that configuration; confirm and cancel turn both exceptions into a
\* rejection, before verify_reference and the provider are called.
C18_AdapterFactory ==
    [][/\ last'.op = "adapter" =>
             LET sid == last'.args[1]
             IN  IF sid \notin DOMAIN fin_payment_service
                 THEN last'.raised = "KeyError" /\ adapter' = adapter
                 ELSE IF fin_payment_service[sid].api_type # "PAYPAL"
                 THEN last'.raised = "ValueError" /\ adapter' = adapter
                 ELSE LET row == fin_payment_service[sid]
                          a == adapter'[1]
                      IN  /\ last'.raised = None
                          /\ a.service_id = sid
                          /\ a.base_url = row.base_url
                          /\ a.username = row.username /\ a.password = row.password
                          /\ a.use_proxy = row.use_proxy /\ a.proxy = row.proxy
                          /\ a.token_type = row.token_type
                          /\ a.access_token = row.access_token
                          /\ a.token_expiry_date = row.token_expiry_date
       /\ ((Handles("confirm") \/ Handles("cancel")) /\ ~NoRecord /\ NoService) =>
             /\ last'.rejected = << <<405>>, "Invalid payment service">>
             /\ last'.calls = <<"adapter">>
             /\ last'.provider = Nil
             /\ fin_subscription' = fin_subscription
             /\ fin_payment_log' = fin_payment_log]_vars

\* C18 happens: an adapter was made for service #1, and then cancel was
\* rejected for the subscription of a service that is not on record
C18_Witness ==
    /\ adapter # Nil /\ adapter[1].service_id = 1
    /\ adapter[1].cls = "PayPalAdapter"
    /\ last.op = "apply_method"
    /\ last.args[1].method = "cancel" /\ last.args[1].record = <<4>>
    /\ last.rejected = << <<405>>, "Invalid payment service">>

\* C19: each of the eleven API functions, called on an adapter whose class
\* does not implement it, raises NotImplementedError, returns nothing, and
\* changes neither the adapter nor the log nor a stored record.
C19_NotImplemented ==
    [][last'.op = "api" =>
          /\ last'.args[1] \in ApiFunctions
          /\ last'.raised = "NotImplementedError"
          /\ last'.ret = Nil
          /\ UNCHANGED <<fin_payment_service, adapter, utcnow, wallclock,
                         fin_payment_log, committed, logfile,
                         fin_subscription, response>>]_vars

\* C19 happens: cancel_subscription was called on an adapter of the base
\* class, while the log has an entry
C19_Witness ==
    /\ last.op = "api"
    /\ last.args = <<"cancel_subscription">>
    /\ last.raised = "NotImplementedError"
    /\ adapter # Nil /\ adapter[1].cls = "S3PaymentService"
    /\ Len(fin_payment_log) = 1

\* C20: when check_subscription returns "APPROVED", confirm sets no
\* notice, calls no other operation of the adapter (no
\* activate_subscription), changes nothing besides what check_subscription
\* itself records (the status it reports, and its log entry), and ends with
\* the proceed signal.
C20_Approved ==
    [][(Checked /\ last'.provider[1] = "APPROVED") =>
          /\ response' = NoNotices
          /\ last'.calls = <<"adapter", "verify_reference", "check_subscription">>
          /\ last'.proceed /\ last'.rejected = Nil /\ last'.raised = None
          /\ fin_subscription' =
                [fin_subscription EXCEPT ![last'.provider[2]].status = "APPROVED"]
          /\ IsPrefix(fin_payment_log, fin_payment_log')
          /\ Len(fin_payment_log') <= Len(fin_payment_log) + 1
          /\ UNCHANGED <<fin_payment_service, adapter, committed>>]_vars

\* C20 happens: check_subscription returned "APPROVED" for subscription #1
C20_Witness ==
    /\ last.op = "apply_method"
    /\ last.args[1].method = "confirm"
    /\ last.provider = <<"APPROVED", 1>>
    /\ response = NoNotices
    /\ last.proceed
    /\ fin_subscription[1].status = "APPROVED"

(***************************************************************************)
(* Further properties of _http_opener                                      *)
(***************************************************************************)
\* the header "Authorization: <token_type or Bearer> <token>"
TokenHeader(token_type, token) ==
    << <<"Authorization", IF Truthy(token_type) THEN token_type ELSE "Bearer",
         token>> >>

\* C22 as claimed: the Authorization header of a token request names the
\* token sent together with the token type stored for that token: after a
\* refresh during the request the type and the token that get_access_token
\* has stored, otherwise the type and the token that were cached.
C22_AsClaimed ==
    (TokenRequest /\ last.sent) =>
        /\ RefreshSucceeded =>
              Authorization(last.headers) =
                  TokenHeader(last.tok.token_type, last.tok.token)
        /\ (last.refreshes = 0 /\ Truthy(last.before[1].access_token)) =>
              Authorization(last.headers) =
                  TokenHeader(last.before[1].token_type,
                              last.before[1].access_token)

\* the adapter held a token before the call, without expiry date
HeldTokenWithoutExpiry ==
    /\ Truthy(last.before[1].access_token)
    /\ last.before[1].token_expiry_date = Nil

\* C23: a token request on an adapter that holds a token without expiry
\* date does not call get_access_token, whatever the time, and sends the
\* token held; the adapter holds the same token afterwards, so that the
\* same is true of every request that follows.
C23_NoExpiryNoRefresh ==
    (TokenRequest /\ HeldTokenWithoutExpiry) =>
        /\ last.refreshes = 0
        /\ last.sent
        /\ Authorization(last.headers) =
              TokenHeader(last.before[1].token_type, last.before[1].access_token)
        /\ adapter = last.before

\* C23 happens: a token that was issued without expiry date by an earlier
\* refresh is sent by a request at a later time
C23_Witness ==
    /\ TokenRequest /\ HeldTokenWithoutExpiry
    /\ last.before[1].access_token = "T2"
    /\ utcnow = MaxTime
    /\ last.refreshes = 0 /\ last.sent

(***************************************************************************)
(* Properties of concurrent token requests                                 *)
(***************************************************************************)
\* all the requests have finished
AllDone == \A p \in Requesters : inflight[p].pc = "done"

\* the tokens that calls of get_access_token have returned
Refreshed ==
    {inflight[p].tok.token :
        p \in {q \in Requesters : /\ inflight[q].tok.kind = "return"
                                  /\ Truthy(inflight[q].tok.token)}}

\* the tokens in the Authorization headers of request p
SentTokens(p) ==
    {inflight[p].headers[i][3] : i \in DOMAIN inflight[p].headers}

\* the token cached in the service configuration is the one that the last
\* call of get_access_token has written, and it has not expired
CachedLastAndUnexpired ==
    /\ last.op = "get_access_token"
    /\ fin_payment_service[1].access_token = last.tok.token
    /\ fin_payment_service[1].token_expiry_date = last.tok.expiry
    /\ ~NeedsRefresh(fin_payment_service[1].access_token,
                     fin_payment_service[1].token_expiry_date, utcnow)

====
